---- MODULE Spec2Model ----
(***************************************************************************)
(* Model of the WeaveLang interpreter session: the pure interpreter        *)
(* functions of src/src/interpreter.rs (parse_weave, execute_tension,      *)
(* execute_drift, execute_resolve, execute_metaweave) and the WeaveLang    *)
(* object of src/src/weavelang_godot.rs that owns the field model and the  *)
(* tension history and exposes the five methods to the host.               *)
(*                                                                         *)
(* Numbers: an f32 is modelled as an exact fixed-point integer, the value  *)
(* times Scale.  The inputs are chosen so that every product the code      *)
(* computes is exact on that grid; f32 rounding, NaN and infinities are    *)
(* outside the model.                                                      *)
(***************************************************************************)
EXTENDS Integers, Sequences, FiniteSets, TLC

(***************************************************************************)
(* f32 values                                                              *)
(***************************************************************************)
Scale == 100000

\* f32::abs
Abs(x) == IF x < 0 THEN -x ELSE x

\* a * b on f32 values
MulF32(a, b) == (a * b) \div Scale

\* the product a * b is representable on the grid without rounding
ExactMul(a, b) == (a * b) % Scale = 0

\* the literals of interpreter.rs
SensorDefault == 0
CoherenceTargetDefault == Scale \div 2
DriftRate == Scale \div 100
ResolveRate == Scale \div 200
GravityValue == (981 * Scale) \div 100

(***************************************************************************)
(* HashMap<String, _> as a function on a finite set of strings             *)
(***************************************************************************)
EmptyMap == [k \in {} |-> 0]

\* HashMap::insert
MapInsert(m, key, val) ==
  [k \in (DOMAIN m) \cup {key} |-> IF k = key THEN val ELSE m[k]]

\* HashMap::get(key).unwrap_or(&dflt)
GetOr(m, key, dflt) == IF key \in DOMAIN m THEN m[key] ELSE dflt

(***************************************************************************)
(* str::parse::<f32> on the characters of a literal                        *)
(***************************************************************************)
Digits == {"0", "1", "2", "3", "4", "5", "6", "7", "8", "9"}

DigitVal(c) ==
  CASE c = "0" -> 0 [] c = "1" -> 1 [] c = "2" -> 2 [] c = "3" -> 3
    [] c = "4" -> 4 [] c = "5" -> 5 [] c = "6" -> 6 [] c = "7" -> 7
    [] c = "8" -> 8 [] c = "9" -> 9

\* the characters of a lexeme of the source text
Chars(text) ==
  CASE text = "0.4" -> <<"0", ".", "4">>
    [] text = "1.0" -> <<"1", ".", "0">>
    [] text = "-2.0" -> <<"-", "2", ".", "0">>
    [] text = "+0.8" -> <<"+", "0", ".", "8">>
    [] text = "3" -> <<"3">>
    [] text = "notanumber" -> <<"n", "o", "t", "a", "n", "u", "m", "b", "e", "r">>
    [] text = "1.2.3" -> <<"1", ".", "2", ".", "3">>
    [] text = "-" -> <<"-">>
    [] OTHER -> <<"?">>

AllDigits(cs) == \A i \in 1..Len(cs) : cs[i] \in Digits

\* index of the first "." of cs, or Len(cs) + 1
RECURSIVE DotAt(_, _)
DotAt(cs, i) ==
  IF i > Len(cs) THEN i
  ELSE IF cs[i] = "." THEN i
  ELSE DotAt(cs, i + 1)

\* value of the integer digits cs, times Scale
RECURSIVE IntPart(_, _, _)
IntPart(cs, i, acc) ==
  IF i > Len(cs) THEN acc * Scale
  ELSE IntPart(cs, i + 1, acc * 10 + DigitVal(cs[i]))

\* value of the fraction digits cs, times Scale; w is the weight of digit i
RECURSIVE FracPart(_, _, _)
FracPart(cs, i, w) ==
  IF i > Len(cs) THEN 0
  ELSE DigitVal(cs[i]) * (w \div 10) + FracPart(cs, i + 1, w \div 10)

\* Result<f32, ParseFloatError> of the decimal forms: [sign] digits [. digits]
ParseF32(cs) ==
  LET signed == Len(cs) > 0 /\ cs[1] \in {"+", "-"}
      body   == IF signed THEN Tail(cs) ELSE cs
      dot    == DotAt(body, 1)
      ip     == SubSeq(body, 1, dot - 1)
      fp     == SubSeq(body, dot + 1, Len(body))
      mag    == IntPart(ip, 1, 0) + FracPart(fp, 1, Scale)
  IN  IF AllDigits(ip) /\ AllDigits(fp) /\ Len(ip) + Len(fp) > 0
      THEN [ok |-> TRUE, val |-> IF signed /\ cs[1] = "-" THEN -mag ELSE mag]
      ELSE [ok |-> FALSE, val |-> 0]

\* param.as_str().parse::<f32>().unwrap_or(0.0)
NumberValue(text) ==
  LET r == ParseF32(Chars(text)) IN IF r.ok THEN r.val ELSE 0

(***************************************************************************)
(* The grammar weavelang.pest (interpreter.rs:8 names it; the file itself  *)
(* is not among the sources).  Modelled from the specification: file is a  *)
(* sequence of fields, a field is  ident { field_param* } , a field_param  *)
(* is  ident = number .  The source text is a sequence of lexemes          *)
(* (whitespace is insignificant).  A pair is a node of pest's parse tree.  *)
(* The pairs a parse yields are the field pairs and EOI, the shape the     *)
(* walk of parse_weave expects at its top level.                           *)
(***************************************************************************)
Pair(rule, str, inner) == [rule |-> rule, str |-> str, inner |-> inner]

IdentLexemes ==
  {"generalist", "quantum_expert", "foo", "coherence_target",
   "physics_constant", "gravity", "bar", "notanumber"}

\* the lexemes the number rule matches: well-formed decimals and the
\* malformed literals that the builder defaults to 0.0
NumberLexemes == {"0.4", "1.0", "-2.0", "+0.8", "3", "notanumber", "1.2.3", "-"}

IsIdent(tok) == tok \in IdentLexemes
IsNumber(tok) == tok \in NumberLexemes

\* field_param* from lexeme i on: the pairs matched and the next lexeme
RECURSIVE MatchParams(_, _, _)
MatchParams(toks, i, acc) ==
  IF i + 2 <= Len(toks) /\ IsIdent(toks[i]) /\ toks[i + 1] = "="
     /\ IsNumber(toks[i + 2])
  THEN MatchParams(toks, i + 3,
         Append(acc, Pair("field_param", "",
                       <<Pair("ident", toks[i], <<>>),
                         Pair("number", toks[i + 2], <<>>)>>)))
  ELSE [inner |-> acc, next |-> i]

\* field* EOI from lexeme i on
RECURSIVE MatchFields(_, _, _)
MatchFields(toks, i, acc) ==
  IF i > Len(toks)
  THEN [ok |-> TRUE, pairs |-> Append(acc, Pair("EOI", "", <<>>))]
  ELSE IF i + 1 <= Len(toks) /\ IsIdent(toks[i]) /\ toks[i + 1] = "{"
  THEN LET ps == MatchParams(toks, i + 2, <<Pair("ident", toks[i], <<>>)>>)
       IN  IF ps.next <= Len(toks) /\ toks[ps.next] = "}"
           THEN MatchFields(toks, ps.next + 1,
                            Append(acc, Pair("field", "", ps.inner)))
           ELSE [ok |-> FALSE, pairs |-> <<>>]
  ELSE [ok |-> FALSE, pairs |-> <<>>]

\* WeaveLangParser::parse(Rule::file, &code)
WeaveLangParser_parse(code) == MatchFields(code, 1, <<>>)

(***************************************************************************)
(* parse_weave: the walk over the parse tree that builds the field model   *)
(***************************************************************************)
\* for param in inner.into_inner() { ... }
RECURSIVE ParamLoop(_, _, _, _)
ParamLoop(inner, i, param_name, param_value) ==
  IF i > Len(inner) THEN [name |-> param_name, value |-> param_value]
  ELSE IF inner[i].rule = "ident"
  THEN ParamLoop(inner, i + 1, inner[i].str, param_value)
  ELSE IF inner[i].rule = "number"
  THEN ParamLoop(inner, i + 1, param_name, NumberValue(inner[i].str))
  ELSE ParamLoop(inner, i + 1, param_name, param_value)

\* for inner in pair.into_inner() { ... }
RECURSIVE FieldLoop(_, _, _, _)
FieldLoop(inner, i, field_name, field_data) ==
  IF i > Len(inner) THEN [name |-> field_name, data |-> field_data]
  ELSE IF inner[i].rule = "ident"
  THEN FieldLoop(inner, i + 1, inner[i].str, field_data)
  ELSE IF inner[i].rule = "field_param"
  THEN LET p == ParamLoop(inner[i].inner, 1, "", 0)
       IN  FieldLoop(inner, i + 1, field_name,
                     MapInsert(field_data, p.name, p.value))
  ELSE FieldLoop(inner, i + 1, field_name, field_data)

\* for pair in pairs { ... }
RECURSIVE PairsLoop(_, _, _)
PairsLoop(pairs, i, acc) ==
  IF i > Len(pairs) THEN acc
  ELSE IF pairs[i].rule = "field"
  THEN LET f == FieldLoop(pairs[i].inner, 1, "", EmptyMap)
       IN  PairsLoop(pairs, i + 1, MapInsert(acc, f.name, f.data))
  ELSE PairsLoop(pairs, i + 1, acc)

\* Result<HashMap<..>, pest::error::Error<Rule>>
Ok(fs) == [ok |-> TRUE, err |-> "", fields |-> fs]
Err(kind) == [ok |-> FALSE, err |-> kind, fields |-> EmptyMap]

\* some literal of the parse tree is not an f32
BadLiteral(pairs) ==
  \E i \in 1..Len(pairs) : \E j \in 1..Len(pairs[i].inner) :
    \E k \in 1..Len(pairs[i].inner[j].inner) :
      /\ pairs[i].inner[j].inner[k].rule = "number"
      /\ ~ParseF32(Chars(pairs[i].inner[j].inner[k].str)).ok

\* parse_weave with the literal's parse error propagated (? for unwrap_or)
parse_weave_Strict(file) ==
  IF ~file.readable THEN Err("io")
  ELSE LET p == WeaveLangParser_parse(file.text)
       IN  IF ~p.ok THEN Err("syntax")
           ELSE IF BadLiteral(p.pairs) THEN Err("number")
           ELSE Ok(PairsLoop(p.pairs, 1, EmptyMap))

\* a file of the host: readable or not, and its text
parse_weave(file) ==
  IF ~file.readable THEN Err("io")
  ELSE LET p == WeaveLangParser_parse(file.text)
       IN  IF ~p.ok THEN Err("syntax")
           ELSE Ok(PairsLoop(p.pairs, 1, EmptyMap))

(***************************************************************************)
(* The update engine of interpreter.rs.  Each function takes the field     *)
(* model it borrows mutably and yields the model it leaves behind; a       *)
(* panicking unwrap() is the outcome panicked = TRUE.                      *)
(***************************************************************************)
Done(fs, ret) == [fields |-> fs, ret |-> ret, panicked |-> FALSE]
Panic(fs) == [fields |-> fs, ret |-> 0, panicked |-> TRUE]

\* execute_tension without .abs()
execute_tension_NoAbs(fs, sensors) ==
  LET coherence == GetOr(sensors, "coherence", SensorDefault)
  IN  IF "generalist" \notin DOMAIN fs THEN Panic(fs)
      ELSE Done(fs, coherence - GetOr(fs["generalist"], "coherence_target",
                                      CoherenceTargetDefault))

execute_tension(fs, sensors) ==
  LET coherence == GetOr(sensors, "coherence", SensorDefault)
  IN  IF "generalist" \notin DOMAIN fs THEN Panic(fs)
      ELSE LET generalist_coherence ==
                 GetOr(fs["generalist"], "coherence_target", CoherenceTargetDefault)
           IN  Done(fs, Abs(coherence - generalist_coherence))

\* Target with the two lookups in the other order
Target_PhysicsFirst(field) ==
  IF "physics_constant" \in DOMAIN field
  THEN [some |-> TRUE, key |-> "physics_constant"]
  ELSE IF "coherence_target" \in DOMAIN field
  THEN [some |-> TRUE, key |-> "coherence_target"]
  ELSE [some |-> FALSE, key |-> ""]

\* field.get_mut("coherence_target").or_else(|| field.get_mut("physics_constant"))
Target(field) ==
  IF "coherence_target" \in DOMAIN field
  THEN [some |-> TRUE, key |-> "coherence_target"]
  ELSE IF "physics_constant" \in DOMAIN field
  THEN [some |-> TRUE, key |-> "physics_constant"]
  ELSE [some |-> FALSE, key |-> ""]

\* AddToTarget that creates coherence_target when the field has no target
AddToTarget_Insert(field, delta) ==
  IF "coherence_target" \in DOMAIN field
  THEN [field EXCEPT !["coherence_target"] = @ + delta]
  ELSE IF "physics_constant" \in DOMAIN field
  THEN [field EXCEPT !["physics_constant"] = @ + delta]
  ELSE MapInsert(field, "coherence_target", CoherenceTargetDefault + delta)

\* *target += delta, when there is a target
AddToTarget(field, delta) ==
  LET t == Target(field)
  IN  IF t.some THEN [field EXCEPT ![t.key] = @ + delta] ELSE field

\* The loop visits every agent once, and the agents are the keys of a map:
\* each visit writes to a different field, so the order does not matter.
execute_drift(fs, agents, history, tension) ==
  Done([f \in DOMAIN fs |->
          IF f \in DOMAIN agents
          THEN AddToTarget(fs[f], MulF32(tension, DriftRate))
          ELSE fs[f]], 0)

\* execute_resolve with drift's step
execute_resolve_DriftRate(fs, agents, tension) ==
  Done([f \in DOMAIN fs |->
          IF f \in DOMAIN agents
          THEN AddToTarget(fs[f], -MulF32(tension, DriftRate))
          ELSE fs[f]], 0)

execute_resolve(fs, agents, tension) ==
  Done([f \in DOMAIN fs |->
          IF f \in DOMAIN agents
          THEN AddToTarget(fs[f], -MulF32(tension, ResolveRate))
          ELSE fs[f]], 0)

\* execute_metaweave with >= for >
execute_metaweave_NonNegative(fs, sensors) ==
  IF GetOr(sensors, "gravity_sensor", SensorDefault) >= 0
  THEN IF "quantum_expert" \notin DOMAIN fs THEN Panic(fs)
       ELSE Done([fs EXCEPT !["quantum_expert"] =
                     MapInsert(@, "gravity", GravityValue)], 0)
  ELSE Done(fs, 0)

execute_metaweave(fs, sensors) ==
  IF GetOr(sensors, "gravity_sensor", SensorDefault) > 0
  THEN IF "quantum_expert" \notin DOMAIN fs THEN Panic(fs)
       ELSE Done([fs EXCEPT !["quantum_expert"] =
                     MapInsert(@, "gravity", GravityValue)], 0)
  ELSE Done(fs, 0)

(***************************************************************************)
(* The boundary of weavelang_godot.rs: a Dictionary of the host maps keys  *)
(* to Variants; an entry that does not convert is skipped.                 *)
(***************************************************************************)
F32(v) == [ty |-> "f32", val |-> v, dict |-> EmptyMap]
Str == [ty |-> "str", val |-> 0, dict |-> EmptyMap]
Dict(d) == [ty |-> "dict", val |-> 0, dict |-> d]

\* the loop  if let Ok(val_f32) = value.try_to::<f32>() { insert }
ToF32Map(dictionary) ==
  [k \in {x \in DOMAIN dictionary : dictionary[x].ty = "f32"} |-> dictionary[k].val]

\* the loop  if let Ok(props_dict) = props.try_to::<Dictionary>() { insert }
ToAgents(agent_data) ==
  [k \in {x \in DOMAIN agent_data : agent_data[x].ty = "dict"} |->
     ToF32Map(agent_data[k].dict)]

\* the loop  agent_data.set(name, dict)  after the update
WriteBack(agent_data, agents) ==
  [k \in DOMAIN agent_data |->
     IF k \in DOMAIN agents
     THEN Dict([p \in DOMAIN agents[k] |-> F32(agents[k][p])])
     ELSE agent_data[k]]

(***************************************************************************)
(* The methods of WeaveLang.  self is the object; a method yields the      *)
(* object it leaves, its return value and whether it panicked.             *)
(***************************************************************************)
Ret(self, ret) == [self |-> self, ret |-> ret, panicked |-> FALSE]
Unwound(self) == [self |-> self, ret |-> 0, panicked |-> TRUE]

\* RefCountedVirtual::init
WeaveLang_init == [fields |-> EmptyMap, tension_history |-> <<>>]

\* load_weave that starts a fresh history with every file it installs
WeaveLang_load_weave_ResetHistory(self, file) ==
  LET r == parse_weave(file)
  IN  IF r.ok THEN Ret([fields |-> r.fields, tension_history |-> <<>>], 1)
      ELSE Ret(self, 0)

\* load_weave that installs what the parse left, whatever its result
WeaveLang_load_weave_InstallAlways(self, file) ==
  LET r == parse_weave(file)
  IN  Ret([self EXCEPT !.fields = r.fields], IF r.ok THEN 1 ELSE 0)

WeaveLang_load_weave(self, file) ==
  LET r == parse_weave(file)
  IN  IF r.ok THEN Ret([self EXCEPT !.fields = r.fields], 1)
      ELSE Ret(self, 0)

WeaveLang_execute_tension(self, sensor_data) ==
  LET r == execute_tension(self.fields, ToF32Map(sensor_data))
  IN  IF r.panicked THEN Unwound([self EXCEPT !.fields = r.fields])
      ELSE Ret([fields |-> r.fields,
                tension_history |-> Append(self.tension_history, r.ret)], r.ret)

WeaveLang_execute_drift(self, agent_data, tension) ==
  LET r == execute_drift(self.fields, ToAgents(agent_data),
                         self.tension_history, tension)
  IN  Ret([self EXCEPT !.fields = r.fields], 0)

WeaveLang_execute_resolve(self, agent_data, tension) ==
  LET r == execute_resolve(self.fields, ToAgents(agent_data), tension)
  IN  Ret([self EXCEPT !.fields = r.fields], 0)

WeaveLang_execute_metaweave(self, sensor_data) ==
  LET r == execute_metaweave(self.fields, ToF32Map(sensor_data))
  IN  IF r.panicked THEN Unwound([self EXCEPT !.fields = r.fields])
      ELSE Ret([self EXCEPT !.fields = r.fields], 0)

(***************************************************************************)
(* The session: one WeaveLang object and the host that calls its methods.  *)
(***************************************************************************)
VARIABLES
  fields,           \* WeaveLang.fields
  tension_history,  \* WeaveLang.tension_history
  alive,            \* the process still runs (FALSE once a panic ended it)
  last,             \* the last call: its method, arguments and outcome
  prev,             \* the object as it was before the last call
  okTensions,       \* how many execute_tension calls have returned
  steps             \* how many calls the host has made

vars == <<fields, tension_history, alive, last, prev, okTensions, steps>>

\* the host makes at most MaxSteps calls
MaxSteps == 5

Tenth(n) == n * (Scale \div 10)

\* the files the host may name
Sources ==
  { <<>>,
    <<"generalist", "{", "coherence_target", "=", "0.4",
                         "physics_constant", "=", "1.0", "}",
      "quantum_expert", "{", "physics_constant", "=", "1.0", "}">>,
    <<"generalist", "{", "}", "foo", "{", "bar", "=", "notanumber", "}">>,
    <<"quantum_expert", "{", "gravity", "=", "3",
                             "coherence_target", "=", "+0.8", "}">>,
    <<"generalist", "{", "coherence_target", "=", "1.0", "}",
      "generalist", "{", "physics_constant", "=", "0.4",
                         "physics_constant", "=", "-2.0", "}">>,
    <<"foo", "{", "bar", "=", "1.2.3", "gravity", "=", "-",
                  "coherence_target", "=", "0.4", "}">>,
    <<"foo", "{", "bar", "=", "1.0">>,
    <<"generalist", "{", "coherence_target", "0.4", "}">>,
    <<"{", "}">>,
    <<"foo", "{", "bar", "=", "}">>,
    <<"generalist", "{", "coherence_target", "=", "0.4", "}",
      "quantum_expert", "{", "gravity", "=", "1.0">>,
    <<"generalist", "{", "coherence_target", "=", "0.4", "}", "}">> }

Files ==
  {[readable |-> FALSE, text |-> <<>>]}
    \cup {[readable |-> TRUE, text |-> s] : s \in Sources}

\* the sensor dictionaries the host may pass
SensorDicts ==
  { EmptyMap,
    "coherence" :> F32(Tenth(8)),
    ("coherence" :> F32(0)) @@ ("gravity_sensor" :> F32(Tenth(10))),
    "gravity_sensor" :> F32(0),
    "gravity_sensor" :> F32(-Tenth(10)),
    ("coherence" :> Str) @@ ("gravity_sensor" :> Str) }

\* the agent dictionaries the host may pass
AgentDicts ==
  { EmptyMap,
    "generalist" :> Dict(EmptyMap),
    ("generalist" :> Dict(("energy" :> F32(Tenth(10))) @@ ("label" :> Str)))
      @@ ("ghost" :> Dict(EmptyMap)),
    ("quantum_expert" :> Dict(EmptyMap)) @@ ("foo" :> Dict(EmptyMap)),
    ("generalist" :> Str) @@ ("ghost" :> Dict(EmptyMap)) }

\* the tension values the host may pass to drift and resolve: fixed ones and
\* the ones execute_tension returned, as far as the products are exact
TensionInputs ==
  {0, Tenth(2), -Tenth(4)}
    \cup {tension_history[i] : i \in
            {j \in 1..Len(tension_history) :
               ExactMul(tension_history[j], ResolveRate)}}

NoFile == [readable |-> FALSE, text |-> <<>>]

Call(op, outcome, ret, file, sensor_data, agent_data, agent_out, tension) ==
  [op |-> op, outcome |-> outcome, ret |-> ret, file |-> file,
   sensor_data |-> sensor_data, agent_data |-> agent_data,
   agent_out |-> agent_out, tension |-> tension]

Self == [fields |-> fields, tension_history |-> tension_history]

Init ==
  /\ fields = WeaveLang_init.fields
  /\ tension_history = WeaveLang_init.tension_history
  /\ alive = TRUE
  /\ last = Call("init", "ok", 0, NoFile, EmptyMap, EmptyMap, EmptyMap, 0)
  /\ prev = WeaveLang_init
  /\ okTensions = 0
  /\ steps = 0

\* the host may call: the process runs and the bound is not reached
CanCall == alive /\ steps < MaxSteps

\* what a returned call leaves
Returned(r) ==
  /\ fields' = r.self.fields
  /\ tension_history' = r.self.tension_history
  /\ prev' = Self
  /\ steps' = steps + 1

\* A panic unwinds out of the method.  Whether the process survives it is
\* the build's choice (panic = "abort", or an unwind caught at the boundary).
Finish(r) ==
  /\ Returned(r)
  /\ IF r.panicked THEN alive' \in BOOLEAN ELSE alive' = alive

Outcome(r) == IF r.panicked THEN "panic" ELSE "ok"

load_weave ==
  /\ CanCall
  /\ \E file \in Files :
       LET r == WeaveLang_load_weave(Self, file)
       IN  /\ Finish(r)
           /\ last' = Call("load_weave", IF r.ret = 1 THEN "ok" ELSE "err",
                           r.ret, file, EmptyMap, EmptyMap, EmptyMap, 0)
           /\ UNCHANGED okTensions

tension ==
  /\ CanCall
  /\ \E sensor_data \in SensorDicts :
       LET r == WeaveLang_execute_tension(Self, sensor_data)
       IN  /\ Finish(r)
           /\ last' = Call("execute_tension", Outcome(r), r.ret, NoFile,
                           sensor_data, EmptyMap, EmptyMap, 0)
           /\ okTensions' = IF r.panicked THEN okTensions ELSE okTensions + 1

drift ==
  /\ CanCall
  /\ \E agent_data \in AgentDicts, t \in TensionInputs :
       LET r == WeaveLang_execute_drift(Self, agent_data, t)
       IN  /\ Finish(r)
           /\ last' = Call("execute_drift", Outcome(r), r.ret, NoFile, EmptyMap,
                           agent_data, WriteBack(agent_data, ToAgents(agent_data)), t)
           /\ UNCHANGED okTensions

resolve ==
  /\ CanCall
  /\ \E agent_data \in AgentDicts, t \in TensionInputs :
       LET r == WeaveLang_execute_resolve(Self, agent_data, t)
       IN  /\ Finish(r)
           /\ last' = Call("execute_resolve", Outcome(r), r.ret, NoFile, EmptyMap,
                           agent_data, WriteBack(agent_data, ToAgents(agent_data)), t)
           /\ UNCHANGED okTensions

metaweave ==
  /\ CanCall
  /\ \E sensor_data \in SensorDicts :
       LET r == WeaveLang_execute_metaweave(Self, sensor_data)
       IN  /\ Finish(r)
           /\ last' = Call("execute_metaweave", Outcome(r), r.ret, NoFile,
                           sensor_data, EmptyMap, EmptyMap, 0)
           /\ UNCHANGED okTensions

Next == load_weave \/ tension \/ drift \/ resolve \/ metaweave

Spec == Init /\ [][Next]_vars

(***************************************************************************)
(* Properties                                                              *)
(***************************************************************************)
IsPrefix(a, b) == Len(a) <= Len(b) /\ SubSeq(b, 1, Len(a)) = a

\* the arguments of the last call as the interpreter receives them
LastSensors == ToF32Map(last.sensor_data)
LastAgents == ToAgents(last.agent_data)

IsUpdate == last.op \in {"execute_drift", "execute_resolve"}

\* the parameters of field f whose value the last call changed
Changed(f) == {p \in DOMAIN prev.fields[f] : fields[f][p] # prev.fields[f][p]}

\* the fields the last call's agents name
Matched == DOMAIN prev.fields \cap DOMAIN LastAgents

HasCT(f) == "coherence_target" \in DOMAIN prev.fields[f]
HasPC(f) == "physics_constant" \in DOMAIN prev.fields[f]

\* the last call kept the names of the fields and of their parameters
SameShape ==
  /\ DOMAIN fields = DOMAIN prev.fields
  /\ \A f \in DOMAIN fields : DOMAIN fields[f] = DOMAIN prev.fields[f]

\* C1: the tension history is as long as the number of execute_tension calls
\* that returned; every call leaves the earlier entries where they were; only
\* a returned execute_tension call appends, and it appends its result.
C1_HistoryAppendOnly ==
  /\ Len(tension_history) = okTensions
  /\ IsPrefix(prev.tension_history, tension_history)
  /\ (last.op = "execute_tension" /\ last.outcome = "ok")
       => tension_history = Append(prev.tension_history, last.ret)
  /\ ~(last.op = "execute_tension" /\ last.outcome = "ok")
       => tension_history = prev.tension_history

\* two tension calls returned, the model was replaced, and a third call failed
C1_Witness ==
  /\ okTensions >= 2
  /\ last.op = "execute_tension"
  /\ last.outcome = "panic"
  /\ alive

\* C2: a load_weave call whose file is unreadable or whose text the grammar
\* rejects returns false and leaves the field model as it was; a text with a
\* missing closing delimiter is such a text.
C2_FailedLoadKeepsModel ==
  last.op = "load_weave" =>
    /\ (~last.file.readable \/ ~WeaveLangParser_parse(last.file.text).ok)
         => (last.ret = 0 /\ last.outcome = "err" /\ fields = prev.fields)
    /\ (last.file.readable /\ last.file.text = <<"foo", "{", "bar", "=", "1.0">>)
         => last.ret = 0
    /\ last.ret = 0 => fields = prev.fields

\* a text whose second field is not closed, loaded over a non-empty model
C2_Witness ==
  /\ last.op = "load_weave"
  /\ last.file.readable
  /\ Len(last.file.text) = 11
  /\ last.ret = 0
  /\ prev.fields # EmptyMap
  /\ fields = prev.fields

\* C3: execute_tension on a model without "generalist" yields a
\* MissingFieldError to the caller, and the process goes on.
C3_MissingGeneralistIsTypedError ==
  (last.op = "execute_tension" /\ "generalist" \notin DOMAIN prev.fields)
    => (last.outcome = "MissingFieldError" /\ alive)

\* C4: execute_metaweave on a model without "quantum_expert" yields a
\* MissingFieldError whatever the sensors say, and leaves the model as it was.
C4_MissingQuantumExpertIsTypedError ==
  (last.op = "execute_metaweave" /\ "quantum_expert" \notin DOMAIN prev.fields)
    => (last.outcome = "MissingFieldError" /\ fields = prev.fields)

\* C5: on a model with "generalist", execute_tension returns |c - t|, c the
\* "coherence" sensor or 0.0, t the generalist's "coherence_target" or 0.5;
\* the result is not negative and the model is left as it was.
C5_TensionFormula ==
  (last.op = "execute_tension" /\ "generalist" \in DOMAIN prev.fields) =>
    LET c == IF "coherence" \in DOMAIN LastSensors
             THEN LastSensors["coherence"] ELSE 0
        g == prev.fields["generalist"]
        t == IF "coherence_target" \in DOMAIN g
             THEN g["coherence_target"] ELSE 5 * (Scale \div 10)
    IN  /\ last.outcome = "ok"
        /\ last.ret = (IF c >= t THEN c - t ELSE t - c)
        /\ last.ret >= 0
        /\ fields = prev.fields

\* both defaults at once: no sensor, no coherence_target, tension 0.5
C5_Witness ==
  /\ last.op = "execute_tension"
  /\ "generalist" \in DOMAIN prev.fields
  /\ "coherence_target" \notin DOMAIN prev.fields["generalist"]
  /\ "coherence" \notin DOMAIN LastSensors
  /\ last.ret = 5 * (Scale \div 10)

LastStep ==
  IF last.op = "execute_drift" THEN (last.tension * (Scale \div 100)) \div Scale
  ELSE -((last.tension * (Scale \div 200)) \div Scale)

C7_SkipOnAbsence ==
  IsUpdate =>
    /\ last.outcome = "ok"
    /\ SameShape
    /\ \A a \in DOMAIN LastAgents :
         (a \in DOMAIN prev.fields /\ ~HasCT(a) /\ ~HasPC(a))
           => fields[a] = prev.fields[a]
    /\ (\A a \in DOMAIN LastAgents :
          a \notin DOMAIN prev.fields \/ (~HasCT(a) /\ ~HasPC(a)))
         => fields = prev.fields

\* a call with a non-zero tension whose agents are one without a field and
\* one whose field has no target
C7_Witness ==
  /\ IsUpdate
  /\ last.tension # 0
  /\ \E a \in DOMAIN LastAgents : a \notin DOMAIN prev.fields
  /\ \E a \in DOMAIN LastAgents :
       a \in DOMAIN prev.fields /\ ~HasCT(a) /\ ~HasPC(a)
  /\ \A a \in DOMAIN LastAgents :
       a \notin DOMAIN prev.fields \/ (~HasCT(a) /\ ~HasPC(a))
  /\ prev.fields # EmptyMap
  /\ fields = prev.fields

\* C8: on a model with "quantum_expert", execute_metaweave leaves the model
\* as it was unless the "gravity_sensor" sensor is present and above 0.0;
\* then quantum_expert's "gravity" is 9.81 afterwards and nothing else changed.
C8_MetaweaveGating ==
  (last.op = "execute_metaweave" /\ "quantum_expert" \in DOMAIN prev.fields) =>
    LET on == "gravity_sensor" \in DOMAIN LastSensors
                /\ LastSensors["gravity_sensor"] > 0
        q  == prev.fields["quantum_expert"]
    IN  /\ last.outcome = "ok"
        /\ ~on => fields = prev.fields
        /\ on =>
             /\ DOMAIN fields = DOMAIN prev.fields
             /\ \A f \in DOMAIN fields \ {"quantum_expert"} :
                  fields[f] = prev.fields[f]
             /\ DOMAIN fields["quantum_expert"] = DOMAIN q \cup {"gravity"}
             /\ fields["quantum_expert"]["gravity"] = 981 * (Scale \div 100)
             /\ \A p \in DOMAIN q \ {"gravity"} :
                  fields["quantum_expert"][p] = q[p]

\* gravity was 3.0 and another parameter was there; the call overwrote gravity
C8_Witness ==
  /\ last.op = "execute_metaweave"
  /\ "quantum_expert" \in DOMAIN prev.fields
  /\ "gravity" \in DOMAIN prev.fields["quantum_expert"]
  /\ prev.fields["quantum_expert"]["gravity"] = 3 * Scale
  /\ fields["quantum_expert"]["gravity"] = 981 * (Scale \div 100)
  /\ Cardinality(DOMAIN fields["quantum_expert"]) > 1

\* what the other update operator makes of the model, the agents and the
\* tension of the last drift or resolve call
Other ==
  IF last.op = "execute_drift"
  THEN execute_resolve(prev.fields, LastAgents, last.tension).fields
  ELSE execute_drift(prev.fields, LastAgents, prev.tension_history,
                     last.tension).fields

\* C9: on the same model, agents and tension, drift and resolve touch the
\* same parameters of the same fields, and what drift adds to a parameter is
\* exactly twice what resolve takes from it.
C9_DriftTwiceResolve ==
  IsUpdate =>
    LET d == IF last.op = "execute_drift" THEN fields ELSE Other
        r == IF last.op = "execute_drift" THEN Other ELSE fields
    IN  /\ DOMAIN d = DOMAIN prev.fields /\ DOMAIN r = DOMAIN prev.fields
        /\ \A f \in DOMAIN prev.fields :
             /\ DOMAIN d[f] = DOMAIN prev.fields[f]
             /\ DOMAIN r[f] = DOMAIN prev.fields[f]
             /\ \A p \in DOMAIN prev.fields[f] :
                  /\ d[f][p] - prev.fields[f][p]
                       = 2 * (prev.fields[f][p] - r[f][p])
                  /\ (d[f][p] # prev.fields[f][p]) <=> (r[f][p] # prev.fields[f][p])
                  /\ (d[f][p] # prev.fields[f][p])
                       => d[f][p] - prev.fields[f][p]
                            = (last.tension * (Scale \div 100)) \div Scale

\* a resolve call with the tension execute_tension returned took 0.00199
\* from a target; drift would have added 0.00398
C9_Witness ==
  /\ last.op = "execute_resolve"
  /\ last.tension \notin {0, Tenth(2), -Tenth(4)}
  /\ \E f \in Matched : \E p \in DOMAIN prev.fields[f] :
       /\ fields[f][p] # prev.fields[f][p]
       /\ Other[f][p] - prev.fields[f][p] = 2 * (prev.fields[f][p] - fields[f][p])

\* the field models of the two files with malformed literals
LenientModel1 == ("generalist" :> EmptyMap) @@ ("foo" :> ("bar" :> 0))
LenientModel2 ==
  "foo" :> (("bar" :> 0) @@ ("gravity" :> 0) @@ ("coherence_target" :> 4 * (Scale \div 10)))

====
